---- MODULE Spec2Model ----
(***************************************************************************)
(* Verification model of sisifus-analytics: the keyword classifier         *)
(* (src/src/classifier.py), the batch loop of main (src/src/main.py) and   *)
(* the company-flow / Sankey builder (src/src/analytics.py).               *)
(*                                                                         *)
(* Text is abstracted to what the code reads from it: for every regex list *)
(* the number of its patterns that match.  Scores and confidences are kept *)
(* in tenths (0.5 is 5).  The float sums of the code, 0.3 + 0.2*m and the  *)
(* + 0.2 subject boost, are exact at 0.5 and 0.7 and off by one ulp at 0.9 *)
(* (0.9000000000000001 or 0.8999999999999999); no comparison of the code   *)
(* (thresholds 0.1, 0.3, 0.4, 0.5) tells those from 0.9.                   *)
(***************************************************************************)
EXTENDS Integers, Sequences, FiniteSets, TLC

VARIABLES
    email,          \* classifier input: the features of one email
    job_related,    \* <<>> before is_job_related is called, <<b>> after
    result,         \* <<>> before classify_email is called, <<r>> after
    batch,          \* main: the list `emails` handed to the batch loop
    batch_idx,      \* main: start of the next slice of the batch loop
    classified_emails, \* main: the accumulated output list
    error_count,    \* main: number of records dropped by the fallback loop
    emails,         \* AnalyticsGenerator.emails
    graph,          \* <<>> before generate_sankey_diagram, <<g>> after
    stats,          \* <<>> before AnalyticsGenerator(emails), <<stats>> after
    summary,        \* <<>> before generate_summary, <<s>> after
    label_state,    \* labels, label_index, current_index of one graph build
    requests,       \* the get_or_add_label calls of the build and their results
    storage_file    \* <<>> while emails.json is absent, <<emails>> after

vars == <<email, job_related, result, batch, batch_idx, classified_emails,
          error_count, emails, graph, stats, summary, label_state, requests,
          storage_file>>

Min(a, b) == IF a < b THEN a ELSE b
Max(a, b) == IF a > b THEN a ELSE b

\* ------------------------------------------------------------------------
\* Bounds of the model
\* ------------------------------------------------------------------------

\* Largest number of patterns of one category that match one email's text.
MaxHits == 4

\* Longest list of emails handed to the batch loop of main.
MaxBatch == 3

\* Longest list of classified emails handed to AnalyticsGenerator, and the
\* highest interview stage among their statuses.
MaxEmails == 3
MaxStage == 3

\* main's BATCH_SIZE, 1000 in the source: scaled down so that a list of
\* MaxBatch emails is cut into more than one slice.
BATCH_SIZE == 2

\* ------------------------------------------------------------------------
\* classifier.py: status categories and pattern lists
\* ------------------------------------------------------------------------

\* The keys of STATUS_KEYWORDS, in dictionary order.
STATUS_KEYWORDS ==
    <<"applied", "confirmation", "interview_1", "interview_2", "interview_3",
      "interview_4", "interview_5", "offer", "accepted", "rejected", "withdrew">>

Categories == {STATUS_KEYWORDS[i] : i \in DOMAIN STATUS_KEYWORDS}

\* f"interview_{i}" for i in 1..5, and int(status.split("_")[1]) back.
InterviewStatus ==
    <<"interview_1", "interview_2", "interview_3", "interview_4", "interview_5">>

NumInterviewStages == 5

IsInterview(status) == \E i \in DOMAIN InterviewStatus : InterviewStatus[i] = status

StageNum(status) == CHOOSE i \in DOMAIN InterviewStatus : InterviewStatus[i] = status

\* Number of exclusion patterns and of job keyword patterns of is_job_related.
NumExclusionPatterns == 26
NumJobKeywords == 38

\* "if exclusion_matches >= 2"
ExclusionLimit == 2

\* ------------------------------------------------------------------------
\* classifier.py: is_job_related
\* ------------------------------------------------------------------------

\* e.exclusion_matches: exclusion patterns matching the text;
\* e.job_matches: job keyword patterns matching the text (the code counts
\* them twice over the same text, as job_keyword_check and as matches);
\* e.company_match: a job platform name occurs in the sender.
is_job_related_no_company(e) ==
    IF e.exclusion_matches >= ExclusionLimit /\ e.job_matches = 0
    THEN FALSE
    ELSE e.job_matches >= 1

is_job_related(e) ==
    IF e.exclusion_matches >= ExclusionLimit /\ e.job_matches = 0
    THEN FALSE
    ELSE (e.job_matches >= 1) \/ e.company_match

\* ------------------------------------------------------------------------
\* classifier.py: classify_email
\* ------------------------------------------------------------------------

\* "if matches >= 3: break"
EarlyExit == 3

\* The counting loop over one category's patterns: one more match per
\* matching pattern, left at the third.
CountMatches(hits) == IF hits >= EarlyExit THEN EarlyExit ELSE hits

\* score = min(1.0, 0.3 + matches * 0.2), then min(1.0, score + 0.2) when a
\* pattern of the category matches the subject; 0.0 without a match.
Score(matches, subject_hit) ==
    IF matches > 0
    THEN LET score == Min(10, 3 + matches * 2)
         IN  IF subject_hit THEN Min(10, score + 2) ELSE score
    ELSE 0

Scores(e) ==
    [c \in Categories |-> Score(CountMatches(e.hits[c]), e.subj[c])]

AcceptedThreshold == 5

\* The rejected test held to the threshold of the accepted test.
RejectedThresholdOfAccepted == AcceptedThreshold

RejectedThreshold == 3
OfferThreshold == 5
WithdrewThreshold == 5
InterviewThreshold == 4
ConfirmationThreshold == 4
AppliedThreshold == 1
AppliedFloor == 3

Verdict(status, confidence) == [status |-> status, confidence |-> confidence]

\* "for i in range(5, 0, -1)": the highest stage whose score passes.
InterviewStages(scores) ==
    {i \in 1..NumInterviewStages : scores[InterviewStatus[i]] > InterviewThreshold}

SetMax(S) == CHOOSE x \in S : \A y \in S : y <= x

\* The cascade with the offer test dropped below the interview loop.
resolve_interview_first(scores) ==
    IF scores["rejected"] > RejectedThreshold
    THEN Verdict("rejected", scores["rejected"])
    ELSE IF scores["accepted"] > AcceptedThreshold
    THEN Verdict("accepted", scores["accepted"])
    ELSE IF scores["withdrew"] > WithdrewThreshold
    THEN Verdict("withdrew", scores["withdrew"])
    ELSE IF InterviewStages(scores) # {}
    THEN LET i == SetMax(InterviewStages(scores))
         IN  Verdict(InterviewStatus[i], scores[InterviewStatus[i]])
    ELSE IF scores["offer"] > OfferThreshold
    THEN Verdict("offer", scores["offer"])
    ELSE IF scores["confirmation"] > ConfirmationThreshold
    THEN Verdict("confirmation", scores["confirmation"])
    ELSE IF scores["applied"] > AppliedThreshold
    THEN Verdict("applied", Max(scores["applied"], AppliedFloor))
    ELSE Verdict("no_reply", 0)

\* The cascade with the rejected test moved behind the withdrew test.
resolve_rejected_late(scores) ==
    IF scores["accepted"] > AcceptedThreshold
    THEN Verdict("accepted", scores["accepted"])
    ELSE IF scores["offer"] > OfferThreshold
    THEN Verdict("offer", scores["offer"])
    ELSE IF scores["withdrew"] > WithdrewThreshold
    THEN Verdict("withdrew", scores["withdrew"])
    ELSE IF scores["rejected"] > RejectedThreshold
    THEN Verdict("rejected", scores["rejected"])
    ELSE IF InterviewStages(scores) # {}
    THEN LET i == SetMax(InterviewStages(scores))
         IN  Verdict(InterviewStatus[i], scores[InterviewStatus[i]])
    ELSE IF scores["confirmation"] > ConfirmationThreshold
    THEN Verdict("confirmation", scores["confirmation"])
    ELSE IF scores["applied"] > AppliedThreshold
    THEN Verdict("applied", Max(scores["applied"], AppliedFloor))
    ELSE Verdict("no_reply", 0)

\* The cascade with the withdrew test moved behind the interview loop.
resolve_withdrew_late(scores) ==
    IF scores["rejected"] > RejectedThreshold
    THEN Verdict("rejected", scores["rejected"])
    ELSE IF scores["accepted"] > AcceptedThreshold
    THEN Verdict("accepted", scores["accepted"])
    ELSE IF scores["offer"] > OfferThreshold
    THEN Verdict("offer", scores["offer"])
    ELSE IF InterviewStages(scores) # {}
    THEN LET i == SetMax(InterviewStages(scores))
         IN  Verdict(InterviewStatus[i], scores[InterviewStatus[i]])
    ELSE IF scores["withdrew"] > WithdrewThreshold
    THEN Verdict("withdrew", scores["withdrew"])
    ELSE IF scores["confirmation"] > ConfirmationThreshold
    THEN Verdict("confirmation", scores["confirmation"])
    ELSE IF scores["applied"] > AppliedThreshold
    THEN Verdict("applied", Max(scores["applied"], AppliedFloor))
    ELSE Verdict("no_reply", 0)

\* The cascade returning the raw applied score of a category that, like
\* applied, had no floor and a zero threshold.
resolve_no_floor(scores) ==
    IF scores["rejected"] > RejectedThreshold
    THEN Verdict("rejected", scores["rejected"])
    ELSE IF scores["accepted"] > AcceptedThreshold
    THEN Verdict("accepted", scores["accepted"])
    ELSE IF scores["offer"] > OfferThreshold
    THEN Verdict("offer", scores["offer"])
    ELSE IF scores["withdrew"] > WithdrewThreshold
    THEN Verdict("withdrew", scores["withdrew"])
    ELSE IF InterviewStages(scores) # {}
    THEN LET i == SetMax(InterviewStages(scores))
         IN  Verdict(InterviewStatus[i], scores[InterviewStatus[i]])
    ELSE IF scores["confirmation"] > ConfirmationThreshold
    THEN Verdict("confirmation", scores["confirmation"])
    ELSE Verdict("applied", scores["applied"])

\* Lines 271-305: the priority cascade over the scores.
resolve(scores) ==
    IF scores["rejected"] > RejectedThreshold
    THEN Verdict("rejected", scores["rejected"])
    ELSE IF scores["accepted"] > AcceptedThreshold
    THEN Verdict("accepted", scores["accepted"])
    ELSE IF scores["offer"] > OfferThreshold
    THEN Verdict("offer", scores["offer"])
    ELSE IF scores["withdrew"] > WithdrewThreshold
    THEN Verdict("withdrew", scores["withdrew"])
    ELSE IF InterviewStages(scores) # {}
    THEN LET i == SetMax(InterviewStages(scores))
         IN  Verdict(InterviewStatus[i], scores[InterviewStatus[i]])
    ELSE IF scores["confirmation"] > ConfirmationThreshold
    THEN Verdict("confirmation", scores["confirmation"])
    ELSE IF scores["applied"] > AppliedThreshold
    THEN Verdict("applied", Max(scores["applied"], AppliedFloor))
    ELSE Verdict("no_reply", 0)

classify_email(e) ==
    IF ~is_job_related(e)
    THEN Verdict("not_job_related", 0)
    ELSE resolve(Scores(e))

\* ------------------------------------------------------------------------
\* Inputs of the classifier
\* ------------------------------------------------------------------------

\* What one category's patterns find in one email: how many of them match
\* the text and whether one of them matches the subject alone.  The text
\* starts with the subject, so a subject match is a text match.
HitOptions ==
    {o \in [hits : 0..MaxHits, subj : BOOLEAN] : o.subj => o.hits >= 1}

NoHit == [hits |-> 0, subj |-> FALSE]

Email(excl, jobs, company, hit) ==
    [exclusion_matches |-> excl, job_matches |-> jobs, company_match |-> company,
     hits |-> [c \in Categories |-> hit[c].hits],
     subj |-> [c \in Categories |-> hit[c].subj]]

NoEmail == Email(0, 0, FALSE, [c \in Categories |-> NoHit])

\* ------------------------------------------------------------------------
\* SpecGate: is_job_related over its whole input space
\* ------------------------------------------------------------------------

IdleMain ==
    /\ batch = <<>>
    /\ batch_idx = 0
    /\ classified_emails = <<>>
    /\ error_count = 0

IdleSummary ==
    /\ stats = <<>>
    /\ summary = <<>>

IdleLabels ==
    /\ label_state = <<>>
    /\ requests = <<>>

IdleStorage == storage_file = <<>>

IdleAnalytics ==
    /\ emails = <<>>
    /\ graph = <<>>
    /\ IdleSummary
    /\ IdleLabels
    /\ IdleStorage

InitGate ==
    /\ \E excl \in 0..NumExclusionPatterns, jobs \in 0..NumJobKeywords,
          company \in BOOLEAN :
          email = Email(excl, jobs, company, [c \in Categories |-> NoHit])
    /\ job_related = <<>>
    /\ result = <<>>
    /\ IdleMain
    /\ IdleAnalytics

IsJobRelated ==
    /\ job_related = <<>>
    /\ job_related' = <<is_job_related(email)>>
    /\ UNCHANGED <<email, result, batch, batch_idx, classified_emails,
                   error_count, emails, graph,
                   stats, summary, label_state, requests, storage_file>>

NextGate == IsJobRelated

SpecGate == InitGate /\ [][NextGate]_vars

\* ------------------------------------------------------------------------
\* SpecClassify: classify_email; every pair of categories competes, with
\* every hit count and subject flag, on both sides of the gate
\* ------------------------------------------------------------------------

InitClassify ==
    /\ \E excl \in {0, ExclusionLimit}, jobs \in {0, 1}, company \in BOOLEAN,
          c1 \in Categories, c2 \in Categories,
          o1 \in HitOptions, o2 \in HitOptions :
          email = Email(excl, jobs, company,
                        [c \in Categories |->
                            IF c = c1 THEN o1 ELSE IF c = c2 THEN o2 ELSE NoHit])
    /\ job_related = <<>>
    /\ result = <<>>
    /\ IdleMain
    /\ IdleAnalytics

ClassifyEmail ==
    /\ result = <<>>
    /\ result' = <<classify_email(email)>>
    /\ UNCHANGED <<email, job_related, batch, batch_idx, classified_emails,
                   error_count, emails, graph,
                   stats, summary, label_state, requests, storage_file>>

NextClassify == ClassifyEmail

SpecClassify == InitClassify /\ [][NextClassify]_vars

\* ------------------------------------------------------------------------
\* classifier.py: extract_company_name
\* ------------------------------------------------------------------------

\* A sender as extract_company_name reads it: `name` is the text before
\* "<", stripped of blanks and quotes ("" when there is no "<" or nothing is
\* left), `name_len` its length, `domain` the group of "@([a-zA-Z0-9.-]+)\."
\* ("" when the pattern does not match).
Sender(name, name_len, domain) ==
    [name |-> name, name_len |-> name_len, domain |-> domain]

MaxNameLen == 100

Providers == {"gmail", "yahoo", "outlook", "hotmail", "icloud", "mail"}

\* domain.replace(".", " ").title() on the domains of the model.
Title(domain) ==
    CASE domain = "techstartup" -> "Techstartup"
      [] domain = "company" -> "Company"
      [] domain = "acme" -> "Acme"
      [] domain = "gmail" -> "Gmail"
      [] OTHER -> domain

None == ""

extract_company_name(sender) ==
    IF sender.name # "" /\ sender.name_len < MaxNameLen
    THEN sender.name
    ELSE IF sender.domain # "" /\ sender.domain \notin Providers
    THEN Title(sender.domain)
    ELSE None

\* ------------------------------------------------------------------------
\* classifier.py: classify_emails
\* ------------------------------------------------------------------------

\* An input record: `email` and `sender` are what the classifier reads from
\* its subject, body and from fields; `raises` says that a step inside the
\* try block raises an Exception (a field that is not a string, such as
\* "body": None); `is_dict` that the record is a dictionary.
Record(id, e, sender, raises, is_dict) ==
    [id |-> id, email |-> e, sender |-> sender, raises |-> raises,
     is_dict |-> is_dict]

\* {**email_data, "status": ..., "confidence": ..., "company": ...}
Classified(email_data, status, confidence, company) ==
    [id |-> email_data.id, email |-> email_data.email,
     sender |-> email_data.sender, raises |-> email_data.raises,
     is_dict |-> email_data.is_dict,
     status |-> status, confidence |-> confidence, company |-> company]

Default(email_data) == Classified(email_data, "no_reply", 0, "Unknown")

\* The try block with the company as extract_company_name returns it, without
\* the `or "Unknown"` of line 347.
ClassifyRecordNoUnknown(email_data) ==
    LET verdict == classify_email(email_data.email)
    IN  Classified(email_data, verdict.status, verdict.confidence,
                   extract_company_name(email_data.sender))

\* The body of the try block for one record.
ClassifyRecord(email_data) ==
    LET verdict == classify_email(email_data.email)
        company == extract_company_name(email_data.sender)
    IN  Classified(email_data, verdict.status, verdict.confidence,
                   IF company # None THEN company ELSE "Unknown")

\* The loop stopping at the first record that raises, as it would without
\* the try block around the record.
RECURSIVE classify_loop_abort(_, _)
classify_loop_abort(todo, classified) ==
    IF todo = <<>>
    THEN [raised |-> FALSE, classified |-> classified]
    ELSE LET email_data == Head(todo)
         IN  IF email_data.is_dict /\ ~email_data.raises
             THEN classify_loop_abort(Tail(todo),
                                      Append(classified, ClassifyRecord(email_data)))
             ELSE [raised |-> TRUE, classified |-> <<>>]

\* The for loop of classify_emails over the records still to do.  The
\* handler copies the record with {**email_data, ...}: for a record that is
\* no dictionary that raises again, out of classify_emails.
RECURSIVE classify_loop(_, _)
classify_loop(todo, classified) ==
    IF todo = <<>>
    THEN [raised |-> FALSE, classified |-> classified]
    ELSE LET email_data == Head(todo)
         IN  IF email_data.is_dict /\ ~email_data.raises
             THEN classify_loop(Tail(todo),
                                Append(classified, ClassifyRecord(email_data)))
             ELSE IF email_data.is_dict
             THEN classify_loop(Tail(todo),
                                Append(classified, Default(email_data)))
             ELSE [raised |-> TRUE, classified |-> <<>>]

classify_emails(batch_emails) == classify_loop(batch_emails, <<>>)

\* ------------------------------------------------------------------------
\* main.py: the batch loop
\* ------------------------------------------------------------------------

\* Lines 210-218: the records of a failed slice, one call each.
RECURSIVE process_individually(_, _)
process_individually(todo, acc) ==
    IF todo = <<>>
    THEN acc
    ELSE LET one == classify_emails(<<Head(todo)>>)
         IN  IF one.raised
             THEN process_individually(Tail(todo),
                     [acc EXCEPT !.error_count = @ + 1])
             ELSE process_individually(Tail(todo),
                     [acc EXCEPT !.classified = @ \o one.classified])

\* emails[batch_idx:batch_idx + BATCH_SIZE]
Slice(list, start) ==
    SubSeq(list, start + 1, Min(start + BATCH_SIZE, Len(list)))

\* One iteration of the for loop of lines 201-218.
batch_iteration(list, start, acc) ==
    LET whole == classify_emails(Slice(list, start))
    IN  IF whole.raised
        THEN process_individually(Slice(list, start), acc)
        ELSE [acc EXCEPT !.classified = @ \o whole.classified]

\* ------------------------------------------------------------------------
\* Inputs of the batch loop
\* ------------------------------------------------------------------------

\* subject "Job Offer", body "We offer you" (tests/test_classifier.py:137)
SampleOffer ==
    Email(0, 2, FALSE,
          [c \in Categories |->
              IF c = "offer" THEN [hits |-> 1, subj |-> TRUE] ELSE NoHit])

\* subject "First Interview", body "Phone screen" (tests/test_classifier.py:136)
SampleInterview ==
    Email(0, 1, FALSE,
          [c \in Categories |->
              IF c = "interview_1" THEN [hits |-> 2, subj |-> TRUE] ELSE NoHit])

\* subject "Newsletter", body "Check out our latest products"
\* (tests/test_classifier.py:150)
SampleNewsletter == Email(1, 0, FALSE, [c \in Categories |-> NoHit])

SampleEmails == {SampleOffer, SampleInterview, SampleNewsletter}

\* "Acme Hiring <jobs@acme.com>", "hr@techstartup.com", "someone@gmail.com"
SampleSenders ==
    {Sender("Acme Hiring", 11, "acme"), Sender("", 0, "techstartup"),
     Sender("", 0, "gmail")}

\* fetch_emails, the importer and load_emails hand over dictionaries.
RecordKinds == {TRUE}

\* The record at position i of a list; its id is the position.
RecordsAt(i) ==
    {Record(i, e, s, r, d) : e \in SampleEmails, s \in SampleSenders,
                             r \in BOOLEAN, d \in RecordKinds}

Batches ==
    UNION {{b \in [1..n -> UNION {RecordsAt(i) : i \in 1..n}] :
               \A i \in 1..n : b[i].id = i} : n \in 0..MaxBatch}

\* ------------------------------------------------------------------------
\* SpecMain: the batch loop of main over a list of records
\* ------------------------------------------------------------------------

IdleClassifier ==
    /\ email = NoEmail
    /\ job_related = <<>>
    /\ result = <<>>

InitMain ==
    /\ batch \in Batches
    /\ batch_idx = 0
    /\ classified_emails = <<>>
    /\ error_count = 0
    /\ IdleClassifier
    /\ IdleAnalytics

MainBatch ==
    /\ batch_idx < Len(batch)
    /\ LET acc == batch_iteration(batch, batch_idx,
                     [classified |-> classified_emails,
                      error_count |-> error_count])
       IN  /\ classified_emails' = acc.classified
           /\ error_count' = acc.error_count
    /\ batch_idx' = batch_idx + BATCH_SIZE
    /\ UNCHANGED <<email, job_related, result, batch, emails, graph,
                   stats, summary, label_state, requests, storage_file>>

NextMain == MainBatch

SpecMain == InitMain /\ [][NextMain]_vars

\* ------------------------------------------------------------------------
\* SpecClassifier: both entry points of the classifier, classify_email on
\* one email and classify_emails through the batch loop
\* ------------------------------------------------------------------------

InitClassifier == InitClassify \/ InitMain

NextClassifier == ClassifyEmail \/ MainBatch

SpecClassifier == InitClassifier /\ [][NextClassifier]_vars

\* ------------------------------------------------------------------------
\* analytics.py: _calculate_stats, the status counter
\* ------------------------------------------------------------------------

\* stats["by_status"].get(status, 0): every email counts under its status.
RECURSIVE by_status(_, _)
by_status(list, status) ==
    IF list = <<>>
    THEN 0
    ELSE (IF Head(list).status = status THEN 1 ELSE 0)
         + by_status(Tail(list), status)

\* The statuses the classifier emits.
Statuses == Categories \cup {"no_reply", "not_job_related"}

excluded_statuses == {"no_reply", "not_job_related"}

\* sum(count for status, count in by_status.items()
\*     if status not in excluded_statuses)
RECURSIVE not_excluded_count(_)
not_excluded_count(list) ==
    IF list = <<>>
    THEN 0
    ELSE (IF Head(list).status \notin excluded_statuses THEN 1 ELSE 0)
         + not_excluded_count(Tail(list))

\* ------------------------------------------------------------------------
\* analytics.py: _get_company_flow
\* ------------------------------------------------------------------------

NewFlow ==
    [highest_interview |-> 0, final_status |-> "no_reply", has_offer |-> FALSE,
     has_accepted |-> FALSE, has_rejected |-> FALSE, has_withdrew |-> FALSE]

\* The update that keeps the stage of the latest interview email in place
\* of the highest one.
UpdateFlowLatestStage(flow, status) ==
    LET f == IF IsInterview(status)
             THEN [flow EXCEPT !.highest_interview = StageNum(status)]
             ELSE flow
    IN  IF status = "accepted"
        THEN [f EXCEPT !.has_accepted = TRUE, !.final_status = "accepted"]
        ELSE IF status = "offer" /\ f.final_status # "accepted"
        THEN [f EXCEPT !.has_offer = TRUE, !.final_status = "offer"]
        ELSE IF status = "withdrew" /\ f.final_status \notin {"accepted", "offer"}
        THEN [f EXCEPT !.has_withdrew = TRUE, !.final_status = "withdrew"]
        ELSE IF /\ status = "rejected"
                /\ f.final_status \notin {"accepted", "offer", "withdrew"}
        THEN [f EXCEPT !.has_rejected = TRUE, !.final_status = "rejected"]
        ELSE IF IsInterview(status) /\ f.final_status = "no_reply"
        THEN [f EXCEPT !.final_status = InterviewStatus[f.highest_interview]]
        ELSE f

\* Lines 174-196: what one email does to the flow of its company.
UpdateFlow(flow, status) ==
    LET f == IF IsInterview(status)
             THEN [flow EXCEPT !.highest_interview = Max(@, StageNum(status))]
             ELSE flow
    IN  IF status = "accepted"
        THEN [f EXCEPT !.has_accepted = TRUE, !.final_status = "accepted"]
        ELSE IF status = "offer" /\ f.final_status # "accepted"
        THEN [f EXCEPT !.has_offer = TRUE, !.final_status = "offer"]
        ELSE IF status = "withdrew" /\ f.final_status \notin {"accepted", "offer"}
        THEN [f EXCEPT !.has_withdrew = TRUE, !.final_status = "withdrew"]
        ELSE IF /\ status = "rejected"
                /\ f.final_status \notin {"accepted", "offer", "withdrew"}
        THEN [f EXCEPT !.has_rejected = TRUE, !.final_status = "rejected"]
        ELSE IF IsInterview(status) /\ f.final_status = "no_reply"
        THEN [f EXCEPT !.final_status = InterviewStatus[f.highest_interview]]
        ELSE f

\* The dictionary company_flows: `order` is the order in which its keys
\* were inserted, `flow` its values.
NoFlows == [order |-> <<>>, flow |-> <<>>]

RECURSIVE company_flow_loop(_, _)
company_flow_loop(list, company_flows) ==
    IF list = <<>>
    THEN company_flows
    ELSE LET company == Head(list).company
             known == company \in DOMAIN company_flows.flow
             before == IF known THEN company_flows.flow[company] ELSE NewFlow
             after == UpdateFlow(before, Head(list).status)
         IN  company_flow_loop(Tail(list),
                [order |-> IF known THEN company_flows.order
                           ELSE Append(company_flows.order, company),
                 flow |-> IF known
                          THEN [company_flows.flow EXCEPT ![company] = after]
                          ELSE company_flows.flow @@ (company :> after)])

get_company_flow(list) == company_flow_loop(list, NoFlows)

\* ------------------------------------------------------------------------
\* analytics.py: generate_sankey_diagram, the outcome counts
\* ------------------------------------------------------------------------

NoCounts ==
    [rejected_from_interview |-> <<>>, rejected_direct |-> 0,
     withdrew_from_interview |-> <<>>, withdrew_direct |-> 0,
     ghosted_from_interview |-> <<>>, ghosted_direct |-> 0,
     offer |-> 0, accepted |-> 0, declined_offer |-> 0]

\* if key not in d: d[key] = 0, then d[key] += 1
Increment(d, key) ==
    IF key \in DOMAIN d THEN [d EXCEPT ![key] = @ + 1] ELSE d @@ (key :> 1)

\* d.get(key, 0)
Get(d, key) == IF key \in DOMAIN d THEN d[key] ELSE 0

\* sum(d.values())
RECURSIVE SumValues(_)
SumValues(d) ==
    IF DOMAIN d = {}
    THEN 0
    ELSE LET k == CHOOSE x \in DOMAIN d : TRUE
         IN  d[k] + SumValues([x \in DOMAIN d \ {k} |-> d[x]])

\* The chain in which a company with an unanswered offer falls through to
\* the later tests and is counted nowhere.
count_company_offer_lost(flow_counts, company, flow) ==
    LET highest == flow.highest_interview
    IN  IF company = "Unknown"
        THEN flow_counts
        ELSE IF flow.has_accepted
        THEN [flow_counts EXCEPT !.accepted = @ + 1]
        ELSE IF flow.has_offer
        THEN flow_counts
        ELSE IF flow.has_withdrew
        THEN IF highest > 0
             THEN [flow_counts EXCEPT
                      !.withdrew_from_interview = Increment(@, highest)]
             ELSE [flow_counts EXCEPT !.withdrew_direct = @ + 1]
        ELSE IF flow.has_rejected
        THEN IF highest > 0
             THEN [flow_counts EXCEPT
                      !.rejected_from_interview = Increment(@, highest)]
             ELSE [flow_counts EXCEPT !.rejected_direct = @ + 1]
        ELSE IF highest > 0
        THEN [flow_counts EXCEPT !.ghosted_from_interview = Increment(@, highest)]
        ELSE [flow_counts EXCEPT !.ghosted_direct = @ + 1]

\* The chain with the inner test of line 241 as `has_withdrew` alone: an
\* offer that was not withdrawn from stays in the offer count.
count_company_offer_kept(flow_counts, company, flow) ==
    LET highest == flow.highest_interview
    IN  IF company = "Unknown"
        THEN flow_counts
        ELSE IF flow.has_accepted
        THEN [flow_counts EXCEPT !.accepted = @ + 1]
        ELSE IF flow.has_offer
        THEN IF flow.has_withdrew
             THEN [flow_counts EXCEPT !.declined_offer = @ + 1]
             ELSE [flow_counts EXCEPT !.offer = @ + 1]
        ELSE IF flow.has_withdrew
        THEN IF highest > 0
             THEN [flow_counts EXCEPT
                      !.withdrew_from_interview = Increment(@, highest)]
             ELSE [flow_counts EXCEPT !.withdrew_direct = @ + 1]
        ELSE IF flow.has_rejected
        THEN IF highest > 0
             THEN [flow_counts EXCEPT
                      !.rejected_from_interview = Increment(@, highest)]
             ELSE [flow_counts EXCEPT !.rejected_direct = @ + 1]
        ELSE IF highest > 0
        THEN [flow_counts EXCEPT !.ghosted_from_interview = Increment(@, highest)]
        ELSE [flow_counts EXCEPT !.ghosted_direct = @ + 1]

\* Lines 233-267: the if/elif chain that counts one company.
count_company(flow_counts, company, flow) ==
    LET highest == flow.highest_interview
    IN  IF company = "Unknown"
        THEN flow_counts
        ELSE IF flow.has_accepted
        THEN [flow_counts EXCEPT !.accepted = @ + 1]
        ELSE IF flow.has_offer
        THEN IF flow.has_withdrew \/ ~flow.has_accepted
             THEN [flow_counts EXCEPT !.declined_offer = @ + 1]
             ELSE [flow_counts EXCEPT !.offer = @ + 1]
        ELSE IF flow.has_withdrew
        THEN IF highest > 0
             THEN [flow_counts EXCEPT
                      !.withdrew_from_interview = Increment(@, highest)]
             ELSE [flow_counts EXCEPT !.withdrew_direct = @ + 1]
        ELSE IF flow.has_rejected
        THEN IF highest > 0
             THEN [flow_counts EXCEPT
                      !.rejected_from_interview = Increment(@, highest)]
             ELSE [flow_counts EXCEPT !.rejected_direct = @ + 1]
        ELSE IF highest > 0
        THEN [flow_counts EXCEPT !.ghosted_from_interview = Increment(@, highest)]
        ELSE [flow_counts EXCEPT !.ghosted_direct = @ + 1]

\* for company, flow in company_flows.items()
RECURSIVE count_loop(_, _, _)
count_loop(order, flow, flow_counts) ==
    IF order = <<>>
    THEN flow_counts
    ELSE count_loop(Tail(order), flow,
                    count_company(flow_counts, Head(order), flow[Head(order)]))

count_flows(company_flows) ==
    count_loop(company_flows.order, company_flows.flow, NoCounts)

\* Lines 211-217.
total_applications_of(list) ==
    IF by_status(list, "applied") > 0 \/ by_status(list, "confirmation") > 0
    THEN by_status(list, "applied") + by_status(list, "confirmation")
    ELSE not_excluded_count(list)

total_rejected_of(flow_counts) ==
    flow_counts.rejected_direct + SumValues(flow_counts.rejected_from_interview)

total_withdrew_of(flow_counts) ==
    flow_counts.withdrew_direct + SumValues(flow_counts.withdrew_from_interview)

total_ghosted_of(flow_counts) ==
    flow_counts.ghosted_direct + SumValues(flow_counts.ghosted_from_interview)

\* ------------------------------------------------------------------------
\* analytics.py: generate_sankey_diagram, the graph
\* ------------------------------------------------------------------------

\* The text of a node, f"{name} ({count})"; a label not yet given its text
\* is the bare key, Text(key, NoCount).
NoCount == -1

Text(name, count) == [name |-> name, count |-> count]

\* labels, label_index and current_index of the closure get_or_add_label,
\* and the four parallel lists of the links as one list of edges.  Indices
\* count from 0 as in the source; labels[idx] of the source is the element
\* idx + 1 of the sequence.
NoGraph ==
    [labels |-> <<>>, label_index |-> <<>>, current_index |-> 0, edges |-> <<>>]

\* The closure without the test of line 294: every request adds a node.
get_or_add_label_always(g, label) ==
    [g EXCEPT !.label_index =
                  [x \in DOMAIN g.label_index \cup {label} |->
                      IF x = label THEN g.current_index ELSE g.label_index[x]],
              !.labels = Append(@, Text(label, NoCount)),
              !.current_index = @ + 1]

\* Lines 292-298; the index returned is label_index[label] of the result.
get_or_add_label(g, label) ==
    IF label \notin DOMAIN g.label_index
    THEN [g EXCEPT !.label_index = @ @@ (label :> g.current_index),
                   !.labels = Append(@, Text(label, NoCount)),
                   !.current_index = @ + 1]
    ELSE g

\* idx = get_or_add_label(key); labels[idx] = f"{name} ({count})"
Node(g, key, name, count) ==
    LET added == get_or_add_label(g, key)
    IN  [added EXCEPT !.labels[added.label_index[key] + 1] = Text(name, count)]

\* One append to each of source_indices, target_indices, values, colors.
Edge(g, source, target, value, color) ==
    [g EXCEPT !.edges = Append(@, [source |-> source, target |-> target,
                                   value |-> value, color |-> color])]

Idx(g, key) == g.label_index[key]

\* Lines 300-324: the sources and Total Applications.
Sources(g, applied_count, recruiter_count, total_applications) ==
    LET g1 == IF applied_count > 0
              THEN Node(g, "Applied", "Applied", applied_count) ELSE g
        g2 == IF recruiter_count > 0
              THEN Node(g1, "Recruiter", "Recruiter", recruiter_count) ELSE g1
        g3 == Node(g2, "Total Applications", "Total Applications",
                   total_applications)
        g4 == IF applied_count > 0
              THEN Edge(g3, Idx(g3, "Applied"), Idx(g3, "Total Applications"),
                        applied_count, "applied")
              ELSE g3
    IN  IF recruiter_count > 0
        THEN Edge(g4, Idx(g4, "Recruiter"), Idx(g4, "Total Applications"),
                  recruiter_count, "recruiter")
        ELSE g4

\* The node of an outcome without the edge of the direct outcomes.
OutcomeNoDirectEdge(g, key, total, direct, color) ==
    IF total > 0 THEN Node(g, key, key, total) ELSE g

\* Lines 326-363, once per outcome: the single node of the outcome and the
\* edge of the companies that reached it without an interview.
Outcome(g, key, total, direct, color) ==
    IF total > 0
    THEN LET g1 == Node(g, key, key, total)
         IN  IF direct > 0
             THEN Edge(g1, Idx(g1, "Total Applications"), Idx(g1, key),
                       direct, color)
             ELSE g1
    ELSE g

\* Lines 368-370: the stages that are a key of one of the three dictionaries.
existing_stages_of(flow_counts) ==
    DOMAIN flow_counts.rejected_from_interview
        \cup DOMAIN flow_counts.withdrew_from_interview
        \cup DOMAIN flow_counts.ghosted_from_interview

\* The stages without the fill of lines 377-379: only those with companies.
sorted_stages_existing_only(existing_stages) == existing_stages

\* Lines 374-379, as the set the ascending loop appends.
sorted_stages_of(existing_stages) ==
    IF existing_stages # {}
    THEN {i \in 1..SetMax(existing_stages) :
             i \in existing_stages \/ i < SetMax(existing_stages)}
    ELSE {}

\* f"Interview {stage_num}" if stage_num > 1 else "First Interview"
StageLabels ==
    <<"First Interview", "Interview 2", "Interview 3", "Interview 4",
      "Interview 5">>

stage_label(stage_num) == StageLabels[stage_num]

at_stage(flow_counts, stage_num) ==
    Get(flow_counts.rejected_from_interview, stage_num)
        + Get(flow_counts.withdrew_from_interview, stage_num)
        + Get(flow_counts.ghosted_from_interview, stage_num)

SetMin(S) == CHOOSE x \in S : \A y \in S : x <= y

\* The count of a stage without the estimate of lines 397-407.
total_at_stage_own(flow_counts, existing_stages, stage_num) ==
    at_stage(flow_counts, stage_num)

\* Lines 390-407: the count on the node of a stage, borrowed from the next
\* stage with companies when the stage has none.
total_at_stage_of(flow_counts, existing_stages, stage_num) ==
    LET own == at_stage(flow_counts, stage_num)
        inferred == IF existing_stages # {}
                    THEN own = 0 /\ stage_num < SetMax(existing_stages)
                    ELSE FALSE
        next_stages == {x \in existing_stages : x > stage_num}
    IN  IF inferred /\ next_stages # {}
        THEN at_stage(flow_counts, SetMin(next_stages))
        ELSE own

\* The edge of a stage outcome drawn from the outcome node to the stage.
StageOutcomeReversed(g, stage_idx, key, after, total, color) ==
    IF after > 0
    THEN LET g1 == IF key \notin DOMAIN g.label_index
                   THEN Node(g, key, key, total) ELSE g
         IN  Edge(g1, Idx(g1, key), stage_idx, after, color)
    ELSE g

\* Lines 432-464, once per outcome: the edge from a stage to the node of
\* the outcome, which is created here if it was not before.
StageOutcome(g, stage_idx, key, after, total, color) ==
    IF after > 0
    THEN LET g1 == IF key \notin DOMAIN g.label_index
                   THEN Node(g, key, key, total) ELSE g
         IN  Edge(g1, stage_idx, Idx(g1, key), after, color)
    ELSE g

\* The state of the loop over sorted_stages between two iterations.
LoopState(g, last_stage_idx, last_stage_num, interview_stage_indices) ==
    [g |-> g, last_stage_idx |-> last_stage_idx,
     last_stage_num |-> last_stage_num,
     interview_stage_indices |-> interview_stage_indices]

\* Lines 384-468: one iteration of the loop over sorted_stages.
stage_iteration(st, flow_counts, existing_stages, stage_num) ==
    LET total_idx == Idx(st.g, "Total Applications")
        total_at_stage == total_at_stage_of(flow_counts, existing_stages, stage_num)
        g1 == Node(st.g, stage_label(stage_num), stage_label(stage_num),
                   total_at_stage)
        stage_idx == Idx(g1, stage_label(stage_num))
        g2 == IF st.last_stage_num > 0 /\ stage_num = st.last_stage_num + 1
              THEN Edge(g1, st.last_stage_idx, stage_idx, total_at_stage,
                        "interview")
              ELSE Edge(g1, total_idx, stage_idx, total_at_stage, "interview")
        g3 == StageOutcome(g2, stage_idx, "Rejected",
                           Get(flow_counts.rejected_from_interview, stage_num),
                           total_rejected_of(flow_counts), "rejected")
        g4 == StageOutcome(g3, stage_idx, "Withdrew",
                           Get(flow_counts.withdrew_from_interview, stage_num),
                           total_withdrew_of(flow_counts), "withdrew")
        g5 == StageOutcome(g4, stage_idx, "Ghosted",
                           Get(flow_counts.ghosted_from_interview, stage_num),
                           total_ghosted_of(flow_counts), "no_reply")
    IN  LoopState(g5, stage_idx, stage_num,
                  st.interview_stage_indices @@ (stage_num :> stage_idx))

\* for stage_num in sorted_stages: ascending.
RECURSIVE stage_loop(_, _, _, _)
stage_loop(st, flow_counts, existing_stages, todo) ==
    IF todo = {}
    THEN st
    ELSE LET stage_num == SetMin(todo)
         IN  stage_loop(stage_iteration(st, flow_counts, existing_stages, stage_num),
                        flow_counts, existing_stages, todo \ {stage_num})

\* The offer flow always drawn from Total Applications.
offer_flow_from_total(st, flow_counts) ==
    IF \/ flow_counts.offer > 0
       \/ flow_counts.accepted > 0
       \/ flow_counts.declined_offer > 0
    THEN LET total_offers == flow_counts.offer + flow_counts.accepted
                                 + flow_counts.declined_offer
             g1 == Node(st.g, "Offer", "Offer", total_offers)
             g2 == Edge(g1, Idx(g1, "Total Applications"),
                        Idx(g1, "Offer"), total_offers, "offer")
             g3 == IF flow_counts.accepted > 0
                   THEN LET n == Node(g2, "Accepted", "Accepted",
                                      flow_counts.accepted)
                        IN  Edge(n, Idx(n, "Offer"), Idx(n, "Accepted"),
                                 flow_counts.accepted, "accepted")
                   ELSE g2
         IN  IF flow_counts.declined_offer > 0
             THEN LET n == Node(g3, "Declined Offer", "Declined",
                                flow_counts.declined_offer)
                  IN  Edge(n, Idx(n, "Offer"), Idx(n, "Declined Offer"),
                           flow_counts.declined_offer, "declined")
             ELSE g3
    ELSE st.g

\* Lines 470-494: Offer, Accepted and Declined.
offer_flow(st, flow_counts) ==
    IF \/ flow_counts.offer > 0
       \/ flow_counts.accepted > 0
       \/ flow_counts.declined_offer > 0
    THEN LET total_offers == flow_counts.offer + flow_counts.accepted
                                 + flow_counts.declined_offer
             g1 == Node(st.g, "Offer", "Offer", total_offers)
             g2 == Edge(g1,
                        IF DOMAIN st.interview_stage_indices # {}
                        THEN st.last_stage_idx
                        ELSE Idx(g1, "Total Applications"),
                        Idx(g1, "Offer"), total_offers, "offer")
             g3 == IF flow_counts.accepted > 0
                   THEN LET n == Node(g2, "Accepted", "Accepted",
                                      flow_counts.accepted)
                        IN  Edge(n, Idx(n, "Offer"), Idx(n, "Accepted"),
                                 flow_counts.accepted, "accepted")
                   ELSE g2
         IN  IF flow_counts.declined_offer > 0
             THEN LET n == Node(g3, "Declined Offer", "Declined",
                                flow_counts.declined_offer)
                  IN  Edge(n, Idx(n, "Offer"), Idx(n, "Declined Offer"),
                           flow_counts.declined_offer, "declined")
             ELSE g3
    ELSE st.g

\* generate_sankey_diagram: the labels and links handed to go.Sankey.
generate_sankey_diagram(list) ==
    LET flow_counts == count_flows(get_company_flow(list))
        g1 == Sources(NoGraph, by_status(list, "applied"),
                      by_status(list, "confirmation"), total_applications_of(list))
        g2 == Outcome(g1, "Rejected", total_rejected_of(flow_counts),
                      flow_counts.rejected_direct, "rejected")
        g3 == Outcome(g2, "Withdrew", total_withdrew_of(flow_counts),
                      flow_counts.withdrew_direct, "withdrew")
        g4 == Outcome(g3, "Ghosted", total_ghosted_of(flow_counts),
                      flow_counts.ghosted_direct, "no_reply")
        existing_stages == existing_stages_of(flow_counts)
        st == stage_loop(LoopState(g4, Idx(g4, "Total Applications"), 0, <<>>),
                         flow_counts, existing_stages,
                         sorted_stages_of(existing_stages))
        g5 == offer_flow(st, flow_counts)
    IN  [labels |-> g5.labels, edges |-> g5.edges]

\* ------------------------------------------------------------------------
\* SpecLabels: get_or_add_label under any sequence of requests of one build
\* ------------------------------------------------------------------------

\* Most requests in one build of the model.
MaxRequests == 4

\* Labels generate_sankey_diagram requests.
LabelKeys == {"Applied", "Total Applications", "Rejected", "First Interview"}

InitLabels ==
    /\ label_state = NoGraph
    /\ requests = <<>>
    /\ emails = <<>>
    /\ graph = <<>>
    /\ IdleClassifier
    /\ IdleMain
    /\ IdleSummary
    /\ IdleStorage

\* One call of get_or_add_label and the index it returns.
GetOrAddLabel ==
    /\ Len(requests) < MaxRequests
    /\ \E label \in LabelKeys :
          LET after == get_or_add_label(label_state, label)
          IN  /\ label_state' = after
              /\ requests' = Append(requests,
                     [label |-> label, index |-> after.label_index[label]])
    /\ UNCHANGED <<email, job_related, result, batch, batch_idx,
                   classified_emails, error_count, emails, graph, stats,
                   summary, storage_file>>

NextLabels == GetOrAddLabel

SpecLabels == InitLabels /\ [][NextLabels]_vars

\* ------------------------------------------------------------------------
\* Inputs of the analytics
\* ------------------------------------------------------------------------

Companies == {"Unknown", "Acme", "Globex"}

\* The statuses of the emails handed to the analytics: every status the
\* classifier emits, interview stages up to MaxStage.
InputStatuses ==
    {x \in Statuses : IsInterview(x) => StageNum(x) <= MaxStage}

ClassifiedEmails == [company : Companies, status : InputStatuses]

\* ------------------------------------------------------------------------
\* SpecSankey: generate_sankey_diagram over a list of classified emails
\* ------------------------------------------------------------------------

InitSankey ==
    /\ \E n \in 0..MaxEmails : emails \in [1..n -> ClassifiedEmails]
    /\ graph = <<>>
    /\ IdleClassifier
    /\ IdleMain
    /\ IdleSummary
    /\ IdleLabels
    /\ IdleStorage

GenerateSankeyDiagram ==
    /\ graph = <<>>
    /\ graph' = <<generate_sankey_diagram(emails)>>
    /\ UNCHANGED <<email, job_related, result, batch, batch_idx,
                   classified_emails, error_count, emails,
                   stats, summary, label_state, requests, storage_file>>

NextSankey == GenerateSankeyDiagram

SpecSankey == InitSankey /\ [][NextSankey]_vars

\* ------------------------------------------------------------------------
\* Dates of email records
\* ------------------------------------------------------------------------

\* The "date" of a record: None, a datetime (its value is the instant), or a
\* string.  IsoString(t) is the text datetime.isoformat() gives for the
\* instant t and datetime.fromisoformat() reads back; Unparsable is a text
\* that fromisoformat rejects.
NoDate == [kind |-> "none", value |-> 0]

Datetime(t) == [kind |-> "datetime", value |-> t]

IsoString(t) == [kind |-> "str", value |-> t]

Unparsable == [kind |-> "str", value |-> 0]

\* `if date:` - a record's date counts when it is neither None nor "".
Truthy(date) == date.kind # "none"

\* date < other of two datetimes or of two strings; the strings of the
\* model's analytics inputs are all the one Unparsable text.
Less(date, other) == date.value < other.value

\* x.isoformat(): the text of a datetime; a string and None have no such
\* method and the call raises AttributeError.
isoformat(date) ==
    IF date.kind = "datetime"
    THEN [raised |-> FALSE, value |-> IsoString(date.value)]
    ELSE [raised |-> TRUE, value |-> NoDate]

\* The conversion without the `if date else None` around it.
iso_unguarded(date) == isoformat(date)

\* date.isoformat() if date else None
iso_or_none(date) ==
    IF Truthy(date) THEN isoformat(date)
    ELSE [raised |-> FALSE, value |-> NoDate]

\* ------------------------------------------------------------------------
\* analytics.py: _calculate_stats
\* ------------------------------------------------------------------------

\* Lines 23-29 and the local error_count of line 32.
NoStats(total_emails) ==
    [total_emails |-> total_emails, by_status |-> <<>>, by_company |-> <<>>,
     date_range |-> [earliest |-> NoDate, latest |-> NoDate],
     applications |-> <<>>, error_count |-> 0]

\* Lines 41-42 on the defaultdict by_company.
count_by_company(by_company, company, status) ==
    IF company \in DOMAIN by_company
    THEN [by_company EXCEPT ![company] =
             [count |-> @.count + 1, statuses |-> Append(@.statuses, status)]]
    ELSE by_company @@ (company :> [count |-> 1, statuses |-> <<status>>])

\* Lines 44-48.  Comparing a datetime with a string raises TypeError; what
\* was assigned before the comparison that raises stays assigned.
update_date_range(date_range, date) ==
    IF ~Truthy(date)
    THEN [raised |-> FALSE, date_range |-> date_range]
    ELSE IF Truthy(date_range.earliest) /\ date_range.earliest.kind # date.kind
    THEN [raised |-> TRUE, date_range |-> date_range]
    ELSE LET r1 == IF \/ ~Truthy(date_range.earliest)
                      \/ Less(date, date_range.earliest)
                   THEN [date_range EXCEPT !.earliest = date]
                   ELSE date_range
         IN  IF Truthy(r1.latest) /\ r1.latest.kind # date.kind
             THEN [raised |-> TRUE, date_range |-> r1]
             ELSE IF ~Truthy(r1.latest) \/ Less(r1.latest, date)
             THEN [raised |-> FALSE, date_range |-> [r1 EXCEPT !.latest = date]]
             ELSE [raised |-> FALSE, date_range |-> r1]

\* Lines 35-61: one email; an exception of its try block is counted and the
\* loop goes on.
stats_step(st, email_data) ==
    LET counted == [st EXCEPT
                       !.by_status = Increment(@, email_data.status),
                       !.by_company = count_by_company(@, email_data.company,
                                                       email_data.status)]
        ranged == update_date_range(counted.date_range, email_data.date)
        dated == [counted EXCEPT !.date_range = ranged.date_range]
        iso == iso_or_none(email_data.date)
    IN  IF ranged.raised \/ iso.raised
        THEN [dated EXCEPT !.error_count = @ + 1]
        ELSE [dated EXCEPT !.applications =
                 Append(@, [company |-> email_data.company,
                            status |-> email_data.status,
                            date |-> iso.value,
                            confidence |-> email_data.confidence])]

RECURSIVE stats_loop(_, _)
stats_loop(todo, st) ==
    IF todo = <<>>
    THEN st
    ELSE stats_loop(Tail(todo), stats_step(st, Head(todo)))

calculate_stats(list) == stats_loop(list, NoStats(Len(list)))

\* ------------------------------------------------------------------------
\* analytics.py: generate_summary
\* ------------------------------------------------------------------------

\* sum(count for status, count in by_status.items() if status in keep)
SumOver(d, keep) == SumValues([x \in DOMAIN d \cap keep |-> d[x]])

\* email.get("confidence", 0.0) > 0.5, in tenths.
HighConfidence == 5

\* Lines 141-152, round(high / len * 100, 2), in hundredths of a percent.
calculate_accuracy_for_emails(list) ==
    IF list = <<>>
    THEN 0
    ELSE LET high_confidence_count ==
                 Len(SelectSeq(list, LAMBDA e : e.confidence > HighConfidence))
         IN  (2 * high_confidence_count * 10000 + Len(list)) \div (2 * Len(list))

\* Lines 89-139: the summary, or the exception that leaves the call.
generate_summary(list, st) ==
    LET job_related_emails ==
            SelectSeq(list, LAMBDA e : e.status \notin excluded_statuses)
        accuracy == IF job_related_emails # <<>>
                    THEN calculate_accuracy_for_emails(job_related_emails)
                    ELSE 0
        earliest == iso_or_none(st.date_range.earliest)
        latest == iso_or_none(st.date_range.latest)
    IN  IF earliest.raised \/ latest.raised
        THEN [raised |-> TRUE]
        ELSE [raised |-> FALSE,
              total_applications |->
                  SumOver(st.by_status, DOMAIN st.by_status \ excluded_statuses),
              status_breakdown |-> st.by_status,
              total_companies |->
                  Cardinality({c \in DOMAIN st.by_company :
                      \E i \in DOMAIN st.by_company[c].statuses :
                          st.by_company[c].statuses[i] \notin excluded_statuses}),
              date_range |-> [earliest |-> earliest.value, latest |-> latest.value],
              rejected_count |-> Get(st.by_status, "rejected"),
              offers_count |-> Get(st.by_status, "offer"),
              accepted_count |-> Get(st.by_status, "accepted"),
              interviews_count |->
                  SumOver(st.by_status,
                          {x \in DOMAIN st.by_status : IsInterview(x)}),
              withdrew_count |-> Get(st.by_status, "withdrew"),
              no_reply_count |-> Get(st.by_status, "no_reply"),
              not_job_related_count |-> Get(st.by_status, "not_job_related"),
              applied_count |-> Get(st.by_status, "applied"),
              confirmation_count |-> Get(st.by_status, "confirmation"),
              accuracy_percentage |-> accuracy]

\* ------------------------------------------------------------------------
\* SpecAnalytics: the statistics, the summary and the graph of one list of
\* classified emails with dates
\* ------------------------------------------------------------------------

\* Longest list and latest instant of the model.
MaxSummaryEmails == 2
MaxDate == 2

\* A date is None (no or unreadable Date header), a datetime, or the text
\* load_emails leaves in place when fromisoformat rejects it.
AnalyticsDates == {NoDate, Unparsable} \cup {Datetime(t) : t \in 1..MaxDate}

\* Statuses with a confidence the classifier gives them.
SummaryVerdicts ==
    {Verdict("applied", 5), Verdict("interview_1", 7), Verdict("rejected", 9),
     Verdict("no_reply", 0)}

AnalyticsEmails ==
    {[company |-> c, status |-> v.status, confidence |-> v.confidence,
      date |-> d] : c \in {"Acme", "Unknown"}, v \in SummaryVerdicts,
                    d \in AnalyticsDates}

InitAnalytics ==
    /\ \E n \in 0..MaxSummaryEmails : emails \in [1..n -> AnalyticsEmails]
    /\ graph = <<>>
    /\ stats = <<>>
    /\ summary = <<>>
    /\ IdleClassifier
    /\ IdleMain
    /\ IdleLabels
    /\ IdleStorage

\* AnalyticsGenerator(emails): __init__ calculates the statistics.
Construct ==
    /\ stats = <<>>
    /\ stats' = <<calculate_stats(emails)>>
    /\ UNCHANGED <<email, job_related, result, batch, batch_idx,
                   classified_emails, error_count, emails, graph, summary,
                   label_state, requests, storage_file>>

GenerateSummary ==
    /\ stats # <<>>
    /\ summary = <<>>
    /\ summary' = <<generate_summary(emails, stats[1])>>
    /\ UNCHANGED <<email, job_related, result, batch, batch_idx,
                   classified_emails, error_count, emails, graph, stats,
                   label_state, requests, storage_file>>

NextAnalytics == Construct \/ GenerateSummary \/ GenerateSankeyDiagram

SpecAnalytics == InitAnalytics /\ [][NextAnalytics]_vars

\* ------------------------------------------------------------------------
\* email_storage.py: save_emails
\* ------------------------------------------------------------------------

\* Largest id and longest list of one save_emails call of the model.
MaxId == 3
MaxSaveLen == 2

\* Lines 33-42: the copy of a record with a datetime turned into its text.
to_save(email_data) ==
    IF email_data.date.kind = "datetime"
    THEN [email_data EXCEPT !.date = IsoString(email_data.date.value)]
    ELSE email_data

\* Lines 31-76 with the write succeeding: the list of emails in the file
\* after the call; `file` is <<>> while the file does not exist.
save_emails(file, list, overwrite) ==
    LET emails_to_save == [i \in DOMAIN list |-> to_save(list[i])]
    IN  IF ~overwrite /\ file # <<>>
        THEN LET existing_emails == file[1]
                 existing_ids == {existing_emails[i].id :
                                     i \in DOMAIN existing_emails}
                 new_emails == SelectSeq(emails_to_save,
                                         LAMBDA e : e.id \notin existing_ids)
             IN  existing_emails \o new_emails
        ELSE emails_to_save

\* The records handed to save_emails: fetched or imported emails, whose
\* date is None or a datetime.
SaveRecords == [id : 1..MaxId, date : {NoDate, Datetime(1)}]

SaveBatches == UNION {[1..n -> SaveRecords] : n \in 0..MaxSaveLen}

\* main saves with overwrite=False (main.py:178).
Overwrites == {FALSE}

\* ------------------------------------------------------------------------
\* SpecStorage: save_emails calls with overwrite=False on an absent file
\* ------------------------------------------------------------------------

InitStorage ==
    /\ storage_file = <<>>
    /\ emails = <<>>
    /\ graph = <<>>
    /\ IdleClassifier
    /\ IdleMain
    /\ IdleSummary
    /\ IdleLabels

SaveEmails ==
    /\ \E list \in SaveBatches, overwrite \in Overwrites :
          storage_file' = <<save_emails(storage_file, list, overwrite)>>
    /\ UNCHANGED <<email, job_related, result, batch, batch_idx,
                   classified_emails, error_count, emails, graph, stats,
                   summary, label_state, requests>>

NextStorage == SaveEmails

SpecStorage == InitStorage /\ [][NextStorage]_vars

\* ------------------------------------------------------------------------
\* Claims about the classifier
\* ------------------------------------------------------------------------

ExcludedStatuses == {"no_reply", "not_job_related"}

ConfidenceOk(v) ==
    /\ v.confidence \in 0..10
    /\ v.confidence = 0 <=> v.status \in ExcludedStatuses

Priority ==
    <<"rejected", "accepted", "offer", "withdrew", "interview_5", "interview_4",
      "interview_3", "interview_2", "interview_1", "confirmation", "applied">>

Threshold(c) ==
    CASE c = "rejected" -> 3
      [] c \in {"accepted", "offer", "withdrew"} -> 5
      [] c = "applied" -> 1
      [] OTHER -> 4

\* The positions of Priority whose category passes its threshold while no
\* category before it does: at most one.
FirstPassing(scores) ==
    {i \in DOMAIN Priority :
        /\ scores[Priority[i]] > Threshold(Priority[i])
        /\ \A j \in 1..(i - 1) : scores[Priority[j]] <= Threshold(Priority[j])}

Gated == result # <<>> /\ is_job_related(email)

\* C4: for an email that passes the gate the status returned is the first
\* category, in the order rejected, accepted, offer, withdrew, interview_5
\* down to interview_1, confirmation, applied, whose score exceeds its
\* threshold, whatever the other scores are, and (no_reply, 0.0) when no
\* score exceeds its threshold.
C4_FirstThresholdWins ==
    Gated =>
        LET first == FirstPassing(Scores(email))
        IN  IF first = {}
            THEN result[1] = Verdict("no_reply", 0)
            ELSE \A i \in first : result[1].status = Priority[i]

\* The returned category has a strictly lower score than another one.
C4_Witness ==
    /\ Gated
    /\ result[1].status \in Categories
    /\ \E c \in Categories :
          Scores(email)[c] > Scores(email)[result[1].status]

\* C5: an email that passes the gate and matches at least one rejected
\* pattern is classified rejected, whatever else matches.
C5_RejectionPriority ==
    (Gated /\ email.hits["rejected"] >= 1) => result[1].status = "rejected"

\* One rejected pattern against three offer patterns and the subject.
C5_Witness ==
    /\ Gated
    /\ email.hits["rejected"] = 1 /\ ~email.subj["rejected"]
    /\ email.hits["offer"] >= 3 /\ email.subj["offer"]
    /\ result[1] = Verdict("rejected", 5)

\* C6 as claimed: an email that passes the gate, matches at least one
\* withdrew pattern and is not returned as rejected, accepted or offer is
\* classified withdrew.
C6_AnyWithdrawalOverrides ==
    (/\ Gated
     /\ email.hits["withdrew"] >= 1
     /\ result[1].status \notin {"rejected", "accepted", "offer"})
        => result[1].status = "withdrew"

\* C6 as amended: the same when two withdrew patterns match, or one matches
\* and a withdrew pattern matches the subject (a withdrew score above 0.5).
C6_ScoredWithdrawalOverrides ==
    (/\ Gated
     /\ email.hits["withdrew"] >= 2 \/ email.subj["withdrew"]
     /\ result[1].status \notin {"rejected", "accepted", "offer"})
        => result[1].status = "withdrew"

\* Two withdrew patterns beat an interview stage with three and the subject.
C6_Witness ==
    /\ Gated
    /\ email.hits["withdrew"] = 2 /\ ~email.subj["withdrew"]
    /\ \E i \in DOMAIN InterviewStatus :
          email.hits[InterviewStatus[i]] >= 3 /\ email.subj[InterviewStatus[i]]
    /\ result[1].status = "withdrew"

\* C7 as claimed: an email that passes the gate, matches an offer pattern
\* and an interview pattern and is not returned as rejected or accepted is
\* classified offer.
C7_AnyOfferOverridesInterview ==
    (/\ Gated
     /\ email.hits["offer"] >= 1
     /\ \E i \in DOMAIN InterviewStatus : email.hits[InterviewStatus[i]] >= 1
     /\ result[1].status \notin {"rejected", "accepted"})
        => result[1].status = "offer"

\* C7 as amended: the same when two offer patterns match, or one matches and
\* an offer pattern matches the subject (an offer score above 0.5).
C7_ScoredOfferOverridesInterview ==
    (/\ Gated
     /\ email.hits["offer"] >= 2 \/ email.subj["offer"]
     /\ \E i \in DOMAIN InterviewStatus : email.hits[InterviewStatus[i]] >= 1
     /\ result[1].status \notin {"rejected", "accepted"})
        => result[1].status = "offer"

\* Two offer patterns beat an interview stage with three and the subject.
C7_Witness ==
    /\ Gated
    /\ email.hits["offer"] = 2 /\ ~email.subj["offer"]
    /\ \E i \in DOMAIN InterviewStatus :
          email.hits[InterviewStatus[i]] >= 3 /\ email.subj[InterviewStatus[i]]
    /\ result[1].status = "offer"

\* C8 as claimed: is_job_related returns False exactly when at least 2
\* exclusion patterns and no job keyword pattern match.
C8_OnlyExclusionRejects ==
    job_related # <<>> =>
        (job_related[1] = FALSE
            <=> (email.exclusion_matches >= 2 /\ email.job_matches = 0))

\* C8 as amended: is_job_related returns False exactly when no job keyword
\* pattern matches and either at least 2 exclusion patterns match or the
\* sender names no job platform.
C8_GateTable ==
    job_related # <<>> =>
        (job_related[1] = FALSE
            <=> (/\ email.job_matches = 0
                 /\ email.exclusion_matches >= 2 \/ ~email.company_match))

\* A job platform sender is let through without a keyword and with one
\* exclusion match, and stopped with two.
C8_Witness ==
    /\ job_related = <<FALSE>>
    /\ email.exclusion_matches = 2
    /\ email.job_matches = 0
    /\ email.company_match

\* C9: an email in which no job keyword pattern matches and whose sender
\* names no job platform is classified (no_reply, 0.0).
C9_UnrelatedIsNoReply ==
    (/\ result # <<>>
     /\ email.job_matches = 0
     /\ ~email.company_match)
        => result[1] = Verdict("no_reply", 0)

\* ------------------------------------------------------------------------
\* Claims about the batch loop
\* ------------------------------------------------------------------------

\* The list with every record made to classify without raising.
Clean(list) == [i \in DOMAIN list |-> [list[i] EXCEPT !.raises = FALSE]]

\* The records the loop is through with.
Done == 1..Min(batch_idx, Len(batch))

\* C10: a record whose classification raises does not abort the loop: after
\* every slice there is one output record per input record of the slices
\* done, in place; the output of a record that does not raise is what the
\* same list yields when no record raises; a record that raises is emitted
\* once, as (no_reply, 0.0, "Unknown") with its own fields.
C10_BatchIsolation ==
    /\ DOMAIN classified_emails = Done
    /\ \A i \in Done :
          IF batch[i].raises
          THEN /\ classified_emails[i] = Default(batch[i])
               /\ Cardinality({j \in Done :
                                  classified_emails[j].id = batch[i].id}) = 1
          ELSE classified_emails[i] = classify_emails(Clean(batch)).classified[i]

\* A finished list of more than one slice in which a record that raises
\* stands before a record that is matched.
C10_Witness ==
    /\ Len(batch) > BATCH_SIZE
    /\ batch_idx >= Len(batch)
    /\ \E i, j \in DOMAIN batch :
          /\ i < j
          /\ batch[i].raises
          /\ classified_emails[i].status = "no_reply"
          /\ classified_emails[i].company = "Unknown"
          /\ ~batch[j].raises
          /\ classified_emails[j].confidence > 0
          /\ classified_emails[j].company # "Unknown"

\* The records of the list that were emitted with the default values.
Defaulted ==
    {i \in DOMAIN classified_emails :
        batch[i].raises /\ classified_emails[i] = Default(batch[i])}

\* C11: when the list is through, the number of failures main can observe,
\* its error_count (the only count or message the loop keeps of a failure),
\* is the number of records emitted as (no_reply, 0.0, "Unknown") because
\* their classification raised.
C11_FailuresReported ==
    batch_idx >= Len(batch) => error_count = Cardinality(Defaulted)

\* The fields classify_emails adds to a record.
AddedFields == {"status", "confidence", "company"}

\* C12: there is one output record per input record of the slices done, at
\* the position of its input; it has every field of the input with the same
\* value, the id included, and status, confidence and a company that is not
\* empty.
C12_OneOutputPerInput ==
    /\ Len(classified_emails) = Cardinality(Done)
    /\ \A i \in Done :
          /\ DOMAIN classified_emails[i] = DOMAIN batch[i] \cup AddedFields
          /\ \A field \in DOMAIN batch[i] :
                classified_emails[i][field] = batch[i][field]
          /\ classified_emails[i].id = i
          /\ classified_emails[i].status \in Statuses
          /\ classified_emails[i].confidence \in 0..10
          /\ classified_emails[i].company # ""

\* A finished list in which a record of a mail provider, with no company to
\* extract, follows a record whose sender names its company.
C12_Witness ==
    /\ Len(batch) = MaxBatch
    /\ batch_idx >= Len(batch)
    /\ \E i, j \in DOMAIN batch :
          /\ i < j
          /\ ~batch[i].raises /\ classified_emails[i].company = "Acme Hiring"
          /\ ~batch[j].raises /\ batch[j].sender.domain = "gmail"
          /\ classified_emails[j].company = "Unknown"
          /\ classified_emails[j].status # "no_reply"

\* ------------------------------------------------------------------------
\* Claims about the graph
\* ------------------------------------------------------------------------

Built == graph # <<>>

\* The sum of the values of the edges that leave, or enter, node idx.
RECURSIVE OutSum(_, _)
OutSum(edges, idx) ==
    IF edges = <<>>
    THEN 0
    ELSE (IF Head(edges).source = idx THEN Head(edges).value ELSE 0)
         + OutSum(Tail(edges), idx)

\* The names on the nodes that are no terminal sink.
InnerNames ==
    {"Applied", "Recruiter", "Total Applications", "Offer"}
        \cup {StageLabels[i] : i \in DOMAIN StageLabels}

\* C1: in the graph built, the values of the edges that leave a node other
\* than a terminal sink add up to the count in the label of the node.
C1_FlowConservation ==
    Built =>
        \A i \in DOMAIN graph[1].labels :
            graph[1].labels[i].name \in InnerNames
                => OutSum(graph[1].edges, i - 1) = graph[1].labels[i].count

\* The companies of a list, and the outcome counts added up.
CompaniesOf(list) == {list[i].company : i \in DOMAIN list}

BucketTotal(flow_counts) ==
    flow_counts.accepted + flow_counts.offer + flow_counts.declined_offer
        + total_rejected_of(flow_counts) + total_withdrew_of(flow_counts)
        + total_ghosted_of(flow_counts)

\* C2: the outcome counts add up to the number of distinct companies other
\* than "Unknown"; every such company adds one to exactly one count and
\* "Unknown" adds to none.
C2_BucketConservation ==
    Built =>
        LET company_flows == get_company_flow(emails)
        IN  /\ BucketTotal(count_flows(company_flows))
                  = Cardinality(CompaniesOf(emails) \ {"Unknown"})
            /\ \A c \in DOMAIN company_flows.flow :
                  BucketTotal(count_company(NoCounts, c, company_flows.flow[c]))
                      = IF c = "Unknown" THEN 0 ELSE 1

\* Two companies with different outcomes beside an "Unknown" email.
C2_Witness ==
    /\ Built
    /\ CompaniesOf(emails) = Companies
    /\ LET flow_counts == count_flows(get_company_flow(emails))
       IN  flow_counts.declined_offer = 1 /\ total_rejected_of(flow_counts) = 1

\* ------------------------------------------------------------------------
\* Claims about the company flows
\* ------------------------------------------------------------------------

\* The statuses among the emails of a company, and the highest interview
\* stage among a set of statuses, 0 when it holds no interview status.
StatusesOf(list, company) ==
    {list[i].status : i \in {j \in DOMAIN list : list[j].company = company}}

HighestOf(S) == SetMax({0} \cup {StageNum(x) : x \in {y \in S : IsInterview(y)}})

\* The terminal status the priority table gives a set of statuses.
TerminalOf(S) ==
    IF "accepted" \in S THEN "accepted"
    ELSE IF "offer" \in S THEN "offer"
    ELSE IF "withdrew" \in S THEN "withdrew"
    ELSE IF "rejected" \in S THEN "rejected"
    ELSE IF HighestOf(S) > 0 THEN InterviewStatus[HighestOf(S)]
    ELSE "no_reply"

\* company_flows of the list the graph was built from.
Flows == get_company_flow(emails).flow

\* C13: the final_status of every company is accepted if one of its emails
\* is accepted, else offer if one is offer, else withdrew if one is withdrew,
\* else rejected if one is rejected, else interview_k for its highest
\* interview stage k > 0, else no_reply.
C13_TerminalPriority ==
    Built =>
        \A c \in DOMAIN Flows :
            Flows[c].final_status = TerminalOf(StatusesOf(emails, c))

\* C14: each of has_accepted, has_offer, has_withdrew, has_rejected of a
\* company is true exactly when an email of the company has that status.
C14_FlagsByPresence ==
    Built =>
        \A c \in DOMAIN Flows :
            LET S == StatusesOf(emails, c)
            IN  /\ Flows[c].has_accepted <=> "accepted" \in S
                /\ Flows[c].has_offer <=> "offer" \in S
                /\ Flows[c].has_withdrew <=> "withdrew" \in S
                /\ Flows[c].has_rejected <=> "rejected" \in S

\* The list in the order given by a permutation of its positions.
Permuted(list, perm) == [i \in DOMAIN list |-> list[perm[i]]]

\* C15: every permutation of the list of emails yields the same flow record
\* for every company.
C15_OrderIndependent ==
    Built =>
        \A perm \in Permutations(DOMAIN emails) :
            get_company_flow(Permuted(emails, perm)).flow = Flows

\* The flow records of one company over every sequence of at most MaxEmails
\* statuses.
StatusSeqs == UNION {[1..n -> InputStatuses] : n \in 1..MaxEmails}

FlowTable ==
    {get_company_flow([i \in DOMAIN seq |->
                          [company |-> "Acme", status |-> seq[i]]]).flow["Acme"] :
        seq \in StatusSeqs}

SameFlags(f1, f2) ==
    /\ f1.highest_interview = f2.highest_interview
    /\ f1.has_accepted = f2.has_accepted
    /\ f1.has_offer = f2.has_offer
    /\ f1.has_withdrew = f2.has_withdrew
    /\ f1.has_rejected = f2.has_rejected

\* C16: two sequences of emails that yield the same highest_interview and
\* the same four flags yield the same final_status.
C16_TerminalFromFlags ==
    Built =>
        \A c \in DOMAIN Flows : \A f \in FlowTable :
            SameFlags(Flows[c], f) => Flows[c].final_status = f.final_status

\* C17: highest_interview of every company is the largest k among the
\* interview_k statuses of its emails, 0 when it has none, whatever other
\* statuses occur and in whatever order.
C17_HighestInterview ==
    Built =>
        \A c \in DOMAIN Flows :
            Flows[c].highest_interview = HighestOf(StatusesOf(emails, c))

\* A company whose higher interview stage comes before a lower one, with a
\* rejection among its emails.
C17_Witness ==
    /\ Built
    /\ \E i, j \in DOMAIN emails :
          /\ i < j
          /\ emails[i].company = emails[j].company
          /\ emails[i].status = "interview_2"
          /\ emails[j].status = "interview_1"
          /\ "rejected" \in StatusesOf(emails, emails[i].company)
          /\ Flows[emails[i].company].highest_interview = 2

\* The list without the emails of a company.
Without(list, company) == SelectSeq(list, LAMBDA e : e.company # company)

\* C18: a company all of whose emails have an excluded status is no key of
\* company_flows and adds to no outcome count: the counts are those of the
\* list without its emails.
C18_ExcludedOnlyAbsent ==
    Built =>
        \A c \in CompaniesOf(emails) :
            StatusesOf(emails, c) \subseteq excluded_statuses =>
                /\ c \notin DOMAIN Flows
                /\ count_flows(get_company_flow(emails))
                      = count_flows(get_company_flow(Without(emails, c)))

\* The count on the node Total Applications.
TotalApplicationsCount ==
    LET labels == graph[1].labels
    IN  labels[CHOOSE i \in DOMAIN labels :
                   labels[i].name = "Total Applications"].count

\* C19: the count on Total Applications is applied + confirmation emails
\* if there is one, else the number of emails whose status is not excluded if
\* there is one, else the number of emails.
C19_TotalApplicationsChain ==
    Built =>
        TotalApplicationsCount =
            IF by_status(emails, "applied") + by_status(emails, "confirmation") > 0
            THEN by_status(emails, "applied") + by_status(emails, "confirmation")
            ELSE IF not_excluded_count(emails) > 0
            THEN not_excluded_count(emails)
            ELSE Len(emails)

\* The stages at which a company is counted as rejected, withdrew or
\* ghosted: the highest stage of a company other than "Unknown" with neither
\* an acceptance nor an offer.
BucketedStages ==
    {Flows[c].highest_interview :
        c \in {d \in DOMAIN Flows :
                  /\ d # "Unknown"
                  /\ ~Flows[d].has_accepted
                  /\ ~Flows[d].has_offer
                  /\ Flows[d].highest_interview > 0}}

\* The positions of the nodes of interview stage k.
StageNodes(k) ==
    {i \in DOMAIN graph[1].labels : graph[1].labels[i].name = StageLabels[k]}

\* C20: with maxStage the largest stage at which a company is bucketed, the
\* graph has exactly one node for every stage 1..maxStage, the stages with no
\* company included, and no stage node beyond it or when no company is
\* bucketed at a stage.
C20_StageNodes ==
    Built =>
        LET maxStage == SetMax({0} \cup BucketedStages)
        IN  \A k \in DOMAIN StageLabels :
                Cardinality(StageNodes(k)) = IF k <= maxStage THEN 1 ELSE 0

\* Companies bucketed at stage 3 only: the nodes of stages 1 and 2 exist.
C20_Witness ==
    /\ Built
    /\ BucketedStages = {3}
    /\ \A k \in 1..3 : Cardinality(StageNodes(k)) = 1

\* ------------------------------------------------------------------------
\* Claims about the nodes and edges of the graph
\* ------------------------------------------------------------------------

\* The positions of the nodes with a name, the edges that enter or leave
\* the node at a position, and the sum of the values that enter it.
NodesNamed(name) ==
    {i \in DOMAIN graph[1].labels : graph[1].labels[i].name = name}

EdgesInto(i) ==
    {k \in DOMAIN graph[1].edges : graph[1].edges[k].target = i - 1}

EdgesFrom(i) ==
    {k \in DOMAIN graph[1].edges : graph[1].edges[k].source = i - 1}

RECURSIVE InSum(_, _)
InSum(edges, idx) ==
    IF edges = <<>>
    THEN 0
    ELSE (IF Head(edges).target = idx THEN Head(edges).value ELSE 0)
         + InSum(Tail(edges), idx)

\* The number of companies bucketed at interview stage k.
BucketedAt(k) ==
    Cardinality({d \in DOMAIN Flows :
                    /\ d # "Unknown"
                    /\ ~Flows[d].has_accepted
                    /\ ~Flows[d].has_offer
                    /\ Flows[d].highest_interview = k})

FlowCounts == count_flows(get_company_flow(emails))

\* The position of the node of the highest interview stage in the graph.
LastStageNode ==
    LET k == SetMax({j \in DOMAIN StageLabels : StageNodes(j) # {}})
    IN  CHOOSE i \in StageNodes(k) : TRUE

\* C22: the Offer node exists exactly when the accepted, offer or declined
\* count is not zero; one edge enters it, from the node of the highest
\* interview stage when the graph has a stage node and from Total
\* Applications otherwise; the edges that leave it are one to Accepted with
\* the accepted count and one to Declined with the declined count, each
\* when its count is not zero.
C22_OfferNode ==
    Built =>
        /\ NodesNamed("Offer") # {}
              <=> FlowCounts.accepted + FlowCounts.offer
                      + FlowCounts.declined_offer > 0
        /\ \A i \in NodesNamed("Offer") :
              /\ Cardinality(EdgesInto(i)) = 1
              /\ \A k \in EdgesInto(i) :
                    graph[1].edges[k].source + 1 =
                        IF \E j \in DOMAIN StageLabels : StageNodes(j) # {}
                        THEN LastStageNode
                        ELSE CHOOSE n \in NodesNamed("Total Applications") : TRUE
              /\ Cardinality(EdgesFrom(i))
                    = (IF FlowCounts.accepted > 0 THEN 1 ELSE 0)
                        + (IF FlowCounts.declined_offer > 0 THEN 1 ELSE 0)
              /\ \A k \in EdgesFrom(i) :
                    LET e == graph[1].edges[k]
                        target == graph[1].labels[e.target + 1].name
                    IN  \/ target = "Accepted" /\ e.value = FlowCounts.accepted
                        \/ target = "Declined"
                              /\ e.value = FlowCounts.declined_offer

\* An accepted company beside one at an interview stage: the Offer node is
\* entered from the stage node and left towards Accepted.
C22_Witness ==
    /\ Built
    /\ StageNodes(2) # {}
    /\ \E i \in NodesNamed("Offer") :
          /\ \E k \in EdgesInto(i) : graph[1].edges[k].source + 1 = LastStageNode
          /\ \E k \in EdgesFrom(i) :
                graph[1].labels[graph[1].edges[k].target + 1].name = "Accepted"

SinkNames == {"Rejected", "Withdrew", "Ghosted", "Accepted", "Declined"}

\* C23: no edge of the graph leaves Rejected, Withdrew, Ghosted, Accepted
\* or Declined.
C23_SinksHaveNoOutflow ==
    Built =>
        \A k \in DOMAIN graph[1].edges :
            graph[1].labels[graph[1].edges[k].source + 1].name \notin SinkNames

\* Rejected is entered from Total Applications and from a stage node.
C23_Witness ==
    /\ Built
    /\ \E i \in NodesNamed("Rejected") :
          /\ Cardinality(EdgesInto(i)) = 2
          /\ EdgesFrom(i) = {}

\* C27: a company with the offer flag and without the accepted flag is
\* counted as declined_offer; the offer count is 0 in every graph and the
\* count on the Offer node is accepted + declined_offer.
C27_OfferBucketEmpty ==
    Built =>
        /\ FlowCounts.offer = 0
        /\ \A c \in DOMAIN Flows \ {"Unknown"} :
              (Flows[c].has_offer /\ ~Flows[c].has_accepted) =>
                  count_company(NoCounts, c, Flows[c]).declined_offer = 1
        /\ \A i \in NodesNamed("Offer") :
              graph[1].labels[i].count
                  = FlowCounts.accepted + FlowCounts.declined_offer

\* An offer that was neither accepted nor withdrawn from, beside an
\* acceptance: Offer (2), one of them declined.
C27_Witness ==
    /\ Built
    /\ \E c \in DOMAIN Flows \ {"Unknown"} :
          /\ Flows[c].has_offer
          /\ ~Flows[c].has_accepted
          /\ ~Flows[c].has_withdrew
    /\ FlowCounts.accepted = 1
    /\ \E i \in NodesNamed("Offer") : graph[1].labels[i].count = 2

\* C28: the values of the edges that enter Rejected, Withdrew, Ghosted,
\* Accepted, Declined or Offer add up to the count on the node, and every
\* edge of the graph has a value above 0.
C28_IncomingSums ==
    Built =>
        /\ \A i \in DOMAIN graph[1].labels :
              graph[1].labels[i].name \in SinkNames \cup {"Offer"} =>
                  InSum(graph[1].edges, i - 1) = graph[1].labels[i].count
        /\ \A k \in DOMAIN graph[1].edges : graph[1].edges[k].value > 0

\* Ghosted (2) entered by a direct edge and by the edge of a stage.
C28_Witness ==
    /\ Built
    /\ \E i \in NodesNamed("Ghosted") :
          /\ graph[1].labels[i].count = 2
          /\ Cardinality(EdgesInto(i)) = 2
          /\ \E k \in EdgesInto(i) :
                graph[1].labels[graph[1].edges[k].source + 1].name
                    = "Total Applications"

\* C29: every permutation of the list of emails yields the same outcome
\* counts and the same graph: labels, their order, edges and values.
C29_GraphOrderIndependent ==
    Built =>
        \A perm \in Permutations(DOMAIN emails) :
            /\ count_flows(get_company_flow(Permuted(emails, perm))) = FlowCounts
            /\ generate_sankey_diagram(Permuted(emails, perm)) = graph[1]

\* An offer before the acceptance of the same company, where the flags of
\* the flow depend on the order, beside an interview of another company.
C29_Witness ==
    /\ Built
    /\ \E i, j, k \in DOMAIN emails :
          /\ i < j
          /\ emails[i].company = emails[j].company
          /\ emails[i].company # "Unknown"
          /\ emails[i].status = "offer"
          /\ emails[j].status = "accepted"
          /\ emails[k].company \notin {"Unknown", emails[i].company}
          /\ IsInterview(emails[k].status)
    /\ FlowCounts.accepted = 1

\* ------------------------------------------------------------------------
\* Claims about get_or_add_label
\* ------------------------------------------------------------------------

\* The labels requested before request i, and the earlier requests of its
\* label.
RequestedBefore(i) == {requests[j].label : j \in 1..(i - 1)}

EarlierRequests(i) ==
    {j \in 1..(i - 1) : requests[j].label = requests[i].label}

\* C24: the first request of a label returns the number of distinct labels
\* requested before it (0, 1, 2, ... in the order of first request); a later
\* request of the label returns the same index and adds no node; distinct
\* labels have distinct indices; there are as many nodes as distinct labels
\* requested.
C24_LabelIndices ==
    /\ \A i \in DOMAIN requests :
          IF EarlierRequests(i) = {}
          THEN requests[i].index = Cardinality(RequestedBefore(i))
          ELSE \A j \in EarlierRequests(i) :
                  requests[i].index = requests[j].index
    /\ \A i, j \in DOMAIN requests :
          requests[i].label # requests[j].label
              => requests[i].index # requests[j].index
    /\ Len(label_state.labels)
          = Cardinality({requests[i].label : i \in DOMAIN requests})

\* A label requested again after another label was added, then a third.
C24_Witness ==
    /\ Len(requests) = 4
    /\ requests[1].label = requests[3].label
    /\ requests[2].label # requests[1].label
    /\ requests[4].label \notin {requests[1].label, requests[2].label}
    /\ requests[3].index = 0
    /\ requests[4].index = 2
    /\ Len(label_state.labels) = 3

\* ------------------------------------------------------------------------
\* Claims about the storage
\* ------------------------------------------------------------------------

\* C30: after any sequence of save_emails calls with overwrite=False that
\* starts with no file, no two records of the stored list have the same id.
C30_NoDuplicateIds ==
    storage_file # <<>> =>
        \A i, j \in DOMAIN storage_file[1] :
            storage_file[1][i].id = storage_file[1][j].id => i = j

\* ------------------------------------------------------------------------
\* Claims about the statistics and the summary
\* ------------------------------------------------------------------------

\* The summary of no email at all.
EmptySummary ==
    [raised |-> FALSE, total_applications |-> 0, status_breakdown |-> <<>>,
     total_companies |-> 0,
     date_range |-> [earliest |-> NoDate, latest |-> NoDate],
     rejected_count |-> 0, offers_count |-> 0, accepted_count |-> 0,
     interviews_count |-> 0, withdrew_count |-> 0, no_reply_count |-> 0,
     not_job_related_count |-> 0, applied_count |-> 0,
     confirmation_count |-> 0, accuracy_percentage |-> 0]

\* C25: for the empty list nothing raises; the summary has every count 0,
\* an empty status_breakdown, the date_range (None, None) and accuracy 0, and
\* the graph is the single node Total Applications (0) with no edge.
C25_EmptyInput ==
    emails = <<>> =>
        /\ stats # <<>> => stats[1].error_count = 0
        /\ summary # <<>> => summary[1] = EmptySummary
        /\ graph # <<>> =>
              graph[1] = [labels |-> <<Text("Total Applications", 0)>>,
                          edges |-> <<>>]

\* The summary and the graph of the empty list are both built.
C25_Witness ==
    /\ emails = <<>>
    /\ summary # <<>>
    /\ graph # <<>>

\* The list with every unparsable date made absent.
AsAbsent(list) ==
    [i \in DOMAIN list |->
        IF list[i].date.kind = "str"
        THEN [list[i] EXCEPT !.date = NoDate]
        ELSE list[i]]

\* C26: a list with unparsable dates yields the statistics and the summary
\* of the same list with those dates absent: every email is counted and is
\* in the applications list, date_range is that of the other emails, and
\* neither the statistics nor the summary raises.
C26_UnparsableAsAbsent ==
    /\ stats # <<>> =>
          /\ stats[1] = calculate_stats(AsAbsent(emails))
          /\ stats[1].error_count = 0
    /\ summary # <<>> =>
          /\ ~summary[1].raised
          /\ summary[1]
                = generate_summary(AsAbsent(emails), calculate_stats(AsAbsent(emails)))

====
